---- MODULE Spec2Model ----
(***************************************************************************)
(* Model of src/backend/card.rs: Card::new builds a social preview card    *)
(* from the scraped Data (metadata map, page title, site string, images)   *)
(* for one Social; Card::get_correct_tag selects the first usable meta-tag.*)
(*                                                                         *)
(* Option<T> is a sequence of length at most one: None == <<>>,            *)
(* Some(x) == <<x>>.  Result<Card, CardError> is a record with field ok.   *)
(* Strings are TLA+ strings drawn from a finite universe; trim, Url::parse *)
(* and to_uppercase are given by their value on every string of it.        *)
(***************************************************************************)
EXTENDS Integers, Sequences, FiniteSets, TLC

VARIABLES metadata, title, url, images, social, result, list, is_url, tag

vars == <<metadata, title, url, images, social, result, list, is_url, tag>>

\* Largest number of meta-tags in a metadata map of the model.
MaxKeys == 3

\* Longest list of images found in the document.
MaxImages == 2

\* Largest number of meta-tags in a metadata map handed to get_correct_tag
\* on its own.
MaxTagKeys == 3

None == <<>>

Some(x) == <<x>>

----------------------------------------------------------------------------
(* Types *)

Social == {"Facebook", "Mastodon", "Twitter"}

CardSize == {"Small", "Medium", "Large"}

CardError == {"NotEnoughData", "TwitterNoCardFound"}

Ok(card) == [ok |-> TRUE, card |-> card]

Err(e) == [ok |-> FALSE, err |-> e]

\* Image::new(url) wraps the string it is given.
ImageNew(u) == [url |-> u]

----------------------------------------------------------------------------
(* Strings *)

\* str::trim on the strings of the model.
Trim(s) ==
    CASE s = " http://a/og.png " -> "http://a/og.png"
      [] s = " " -> ""
      [] OTHER -> s

\* Url::parse(s).is_ok(): an absolute URL with a scheme parses, a relative
\* reference, free text or the empty string does not.
UrlParse(s) == s \in {"http://a/og.png", "http://a/tw.png", "http://a/src.png"}

\* String::to_uppercase on the site strings of the model.
ToUpper(s) ==
    CASE s = "example.com" -> "EXAMPLE.COM"
      [] OTHER -> s

----------------------------------------------------------------------------
(* Inputs *)

Keys == {"og:title", "twitter:title", "title",
         "og:description", "twitter:description", "description",
         "og:image", "twitter:image", "twitter:image:src",
         "og:type", "twitter:card", "og:site_name"}

\* The contents a meta-tag takes in the model.
ValuesOf(k) ==
    CASE k = "og:title" -> {"", "OG Title"}
      [] k = "twitter:title" -> {"", "TW Title"}
      [] k = "title" -> {"", "Title"}
      [] k = "og:description" -> {"", "OG Desc"}
      [] k = "twitter:description" -> {"", "TW Desc"}
      [] k = "description" -> {"", "Desc"}
      [] k = "og:image" -> {"/og.png", " http://a/og.png "}
      [] k = "twitter:image" -> {" ", "http://a/tw.png"}
      [] k = "twitter:image:src" -> {"not a url", "http://a/src.png"}
      [] k = "og:type" -> {"", "website", "summary"}
      [] k = "twitter:card" -> {"", "summary", "summary_large_image", "player"}
      [] k = "og:site_name" -> {"", "ExampleSite"}

EmptyMap == [k \in {} |-> ""]

Put(m, k, v) == [x \in DOMAIN m \cup {k} |-> IF x = k THEN v ELSE m[x]]

RECURSIVE MapsOver(_, _)
\* The maps whose keys are at most n of the keys ks.
MapsOver(ks, n) ==
    IF ks = {} \/ n = 0 THEN {EmptyMap}
    ELSE LET k == CHOOSE x \in ks : TRUE
             without == MapsOver(ks \ {k}, n)
             fewer == MapsOver(ks \ {k}, n - 1)
         IN without \cup {Put(m, k, v) : m \in fewer, v \in ValuesOf(k)}

MetadataMaps == MapsOver(Keys, MaxKeys)

PageTitles == {None, Some(""), Some("Page Title")}

\* Data.url is the site of the page that was scraped.
SiteStrings == {"example.com"}

ImagePool == {ImageNew("http://a/p1.png"), ImageNew("http://a/p2.png")}

ImageLists == UNION {[1..n -> ImagePool] : n \in 0..MaxImages}

----------------------------------------------------------------------------
(* Card::get_correct_tag *)

\* Acceptable without the URL check: any non-empty content passes.
AcceptableNonEmpty(content, url_wanted) == content # ""

\* A candidate passes when it is a URL after trimming (is_url) or when it is
\* not the empty string (otherwise).
Acceptable(content, url_wanted) ==
    IF url_wanted THEN UrlParse(Trim(content)) ELSE content # ""

RECURSIVE TagLoop(_, _, _, _)
\* The for loop of get_correct_tag from the i-th term on.
TagLoop(i, terms, md, url_wanted) ==
    IF i > Len(terms) THEN None
    ELSE IF terms[i] \in DOMAIN md /\ Acceptable(md[terms[i]], url_wanted)
         THEN Some(md[terms[i]])
         ELSE TagLoop(i + 1, terms, md, url_wanted)

RECURSIVE TagLoopAbort(_, _, _, _)
\* The loop with a return where the code has continue.
TagLoopAbort(i, terms, md, url_wanted) ==
    IF i > Len(terms) THEN None
    ELSE IF terms[i] \in DOMAIN md
         THEN (IF Acceptable(md[terms[i]], url_wanted)
               THEN Some(md[terms[i]]) ELSE None)
         ELSE TagLoopAbort(i + 1, terms, md, url_wanted)

\* get_correct_tag giving up at the first candidate that does not pass.
get_correct_tag_abort(terms, md, url_wanted) ==
    TagLoopAbort(1, terms, md, url_wanted)

get_correct_tag(terms, md, url_wanted) == TagLoop(1, terms, md, url_wanted)

----------------------------------------------------------------------------
(* Card::new *)

title_find(s) ==
    IF s = "Twitter" THEN <<"twitter:title", "og:title", "title">>
    ELSE <<"og:title", "twitter:title", "title">>

description_find(s) ==
    IF s = "Twitter" THEN <<"twitter:description", "og:description">>
    ELSE <<"og:description", "twitter:description", "description">>

image_find(s) ==
    CASE s = "Facebook" -> <<"og:image", "twitter:image", "twitter:image:src">>
      [] s = "Mastodon" -> <<"og:image">>
      [] s = "Twitter" -> <<"twitter:image", "twitter:image:src", "og:image">>

type_find(s) ==
    IF s = "Twitter" THEN <<"twitter:card", "og:type">> ELSE <<"og:type">>

\* The site after the first match on social.
SiteFor(s, md, u) ==
    CASE s = "Facebook" -> ToUpper(u)
      [] s = "Mastodon" ->
            IF "og:site_name" \in DOMAIN md /\ md["og:site_name"] # ""
            THEN md["og:site_name"] ELSE u
      [] s = "Twitter" -> u

\* InitialSize with the two arms of the twitter:card match exchanged.
InitialSizeArmsSwapped(s, md) ==
    CASE s = "Facebook" -> "Large"
      [] s = "Mastodon" -> "Small"
      [] s = "Twitter" ->
            IF "twitter:card" \in DOMAIN md
            THEN (IF md["twitter:card"] = "summary_large_image"
                  THEN "Medium" ELSE "Large")
            ELSE "Medium"

\* InitialSize reading the card-type hint (first non-empty of twitter:card,
\* og:type) where the code reads the twitter:card meta-tag.
InitialSizeFromHint(s, md) ==
    CASE s = "Facebook" -> "Large"
      [] s = "Mastodon" -> "Small"
      [] s = "Twitter" ->
            LET hint == get_correct_tag(type_find(s), md, FALSE)
            IN IF hint # None
               THEN (IF hint[1] = "summary" THEN "Medium" ELSE "Large")
               ELSE "Medium"

\* InitialSize with Mastodon sized by twitter:card as Twitter is.
InitialSizeMastodonAsTwitter(s, md) ==
    CASE s = "Facebook" -> "Large"
      [] s \in {"Mastodon", "Twitter"} ->
            IF "twitter:card" \in DOMAIN md
            THEN (IF md["twitter:card"] = "summary" THEN "Medium" ELSE "Large")
            ELSE (IF s = "Mastodon" THEN "Small" ELSE "Medium")

\* The size after the first match on social.
InitialSize(s, md) ==
    CASE s = "Facebook" -> "Large"
      [] s = "Mastodon" -> "Small"
      [] s = "Twitter" ->
            IF "twitter:card" \in DOMAIN md
            THEN (IF md["twitter:card"] = "summary" THEN "Medium" ELSE "Large")
            ELSE "Medium"

\* The title of the card: the meta-tag, else the page title, else the site.
FinalTitle(pre_title, page_title, site) ==
    IF pre_title # None THEN pre_title[1]
    ELSE IF page_title # None THEN page_title[1]
    ELSE site

\* The image of the card before the final match.
MetaImage(pre_image) ==
    IF pre_image # None THEN Some(ImageNew(pre_image[1])) ELSE None

\* ErrorFor with the card-type check ahead of the basic-data check.
ErrorForCardTypeFirst(s, pre_title, description, card_type) ==
    IF s = "Twitter" /\ card_type = None
    THEN Some("TwitterNoCardFound")
    ELSE IF s = "Twitter" /\ pre_title = None /\ description = None
         THEN Some("NotEnoughData")
         ELSE None

\* ErrorFor without the card-type check of the final match.
ErrorForNoCardCheck(s, pre_title, description, card_type) ==
    IF s = "Twitter" /\ pre_title = None /\ description = None
    THEN Some("NotEnoughData")
    ELSE None

\* ErrorFor with the basic-data check applied to every social.
ErrorForAnySocial(s, pre_title, description, card_type) ==
    IF pre_title = None /\ description = None
    THEN Some("NotEnoughData")
    ELSE IF s = "Twitter" /\ card_type = None
         THEN Some("TwitterNoCardFound")
         ELSE None

\* The error Card::new returns, if any: the basic-data check comes first,
\* the card-type check in the final match second.
ErrorFor(s, pre_title, description, card_type) ==
    IF s = "Twitter" /\ pre_title = None /\ description = None
    THEN Some("NotEnoughData")
    ELSE IF s = "Twitter" /\ card_type = None
         THEN Some("TwitterNoCardFound")
         ELSE None

\* FinalImageSize taking the document image whether or not the metadata
\* gave one.
FinalImageSizeAlways(s, image, size, imgs) ==
    IF s = "Facebook" /\ Len(imgs) > 0
    THEN <<Some(imgs[1]), "Medium">>
    ELSE <<image, size>>

\* The image and the size after the final match on social.
FinalImageSize(s, image, size, imgs) ==
    IF s = "Facebook" /\ image = None /\ Len(imgs) > 0
    THEN <<Some(imgs[1]), "Medium">>
    ELSE <<image, size>>

CardNew(md, page_title, u, imgs, s) ==
    LET site == SiteFor(s, md, u)
        size == InitialSize(s, md)
        pre_title == get_correct_tag(title_find(s), md, FALSE)
        ttl == FinalTitle(pre_title, page_title, site)
        description == get_correct_tag(description_find(s), md, FALSE)
        pre_image == get_correct_tag(image_find(s), md, TRUE)
        image == MetaImage(pre_image)
        card_type == get_correct_tag(type_find(s), md, FALSE)
        error == ErrorFor(s, pre_title, description, card_type)
        final == FinalImageSize(s, image, size, imgs)
    IN IF error # None THEN Err(error[1])
       ELSE Ok([title |-> ttl, site |-> site, description |-> description,
                image |-> final[1], size |-> final[2], social |-> s])

----------------------------------------------------------------------------
(* Specification of Card::new: the scraped data is given, a card is built   *)
(* for one social.                                                          *)

\* The lists Card::new hands to get_correct_tag.
FindLists ==
    UNION {{title_find(s), description_find(s), image_find(s), type_find(s)} :
           s \in Social}

Init ==
    /\ metadata \in MetadataMaps
    /\ title \in PageTitles
    /\ url \in SiteStrings
    /\ images \in ImageLists
    /\ social = None
    /\ result = None
    /\ list = <<>>
    /\ is_url = FALSE
    /\ tag = None

New(s) ==
    /\ result = None
    /\ social' = Some(s)
    /\ result' = Some(CardNew(metadata, title, url, images, s))
    /\ UNCHANGED <<metadata, title, url, images, list, is_url, tag>>

Next == \E s \in Social : New(s)

Spec == Init /\ [][Next]_vars

(* Specification of get_correct_tag on its own. *)

InitTag ==
    /\ metadata \in MapsOver(Keys, MaxTagKeys)
    /\ list \in FindLists
    /\ is_url \in BOOLEAN
    /\ tag = None
    /\ title = None
    /\ url = "example.com"
    /\ images = <<>>
    /\ social = None
    /\ result = None

GetCorrectTag ==
    /\ tag = None
    /\ tag' = Some(get_correct_tag(list, metadata, is_url))
    /\ UNCHANGED <<metadata, title, url, images, social, result, list, is_url>>

NextTag == GetCorrectTag

SpecTag == InitTag /\ [][NextTag]_vars

----------------------------------------------------------------------------
(* Properties *)

Done == result # None

Returned == Done /\ result[1].ok

Failed == Done /\ ~result[1].ok

Soc == social[1]

CardOut == result[1].card

\* Some key of ks holds a non-empty value.
Resolved(ks) == \E k \in ks : k \in DOMAIN metadata /\ metadata[k] # ""

\* The content of meta-tag k parses as a URL once trimmed.
HoldsUrl(k) == k \in DOMAIN metadata /\ UrlParse(Trim(metadata[k]))

TwitterTitleKeys == {"twitter:title", "og:title", "title"}

TwitterDescriptionKeys == {"twitter:description", "og:description"}

FacebookImageKeys == <<"og:image", "twitter:image", "twitter:image:src">>

\* C1: whenever Card::new returns a Card, on any social and any data, the
\* title of the Card is not the empty string.
C1_TitleNeverEmpty == Returned => CardOut.title # ""

\* C2: on Twitter, when no title key (twitter:title, og:title, title) and no
\* description key (twitter:description, og:description) holds a non-empty
\* value, Card::new fails with NotEnoughData, whatever the page title and
\* whether or not twitter:card or og:type is there.
C2_TwitterNotEnoughData ==
    (Done /\ Soc = "Twitter"
          /\ ~Resolved(TwitterTitleKeys) /\ ~Resolved(TwitterDescriptionKeys))
    => result[1] = Err("NotEnoughData")

\* A Twitter card refused with NotEnoughData although the page has a title
\* and the metadata has a card type.
C2_Witness ==
    /\ Done /\ Soc = "Twitter"
    /\ title = Some("Page Title")
    /\ "twitter:card" \in DOMAIN metadata /\ metadata["twitter:card"] = "summary"
    /\ ~Resolved(TwitterTitleKeys) /\ ~Resolved(TwitterDescriptionKeys)
    /\ result[1] = Err("NotEnoughData")

\* C3 as stated: on Twitter, every metadata map with neither twitter:card
\* nor og:type makes Card::new fail with TwitterNoCardFound.
C3_AlwaysNoCardFound ==
    (Done /\ Soc = "Twitter"
          /\ "twitter:card" \notin DOMAIN metadata /\ "og:type" \notin DOMAIN metadata)
    => result[1] = Err("TwitterNoCardFound")

\* C3 amended: on Twitter, a metadata map with neither twitter:card nor
\* og:type never yields a Card; the error is TwitterNoCardFound when a title
\* or a description is resolved from the metadata, NotEnoughData when
\* neither is.
C3_NoCardWithoutType ==
    (Done /\ Soc = "Twitter"
          /\ "twitter:card" \notin DOMAIN metadata /\ "og:type" \notin DOMAIN metadata)
    => /\ Failed
       /\ result[1].err =
            (IF Resolved(TwitterTitleKeys) \/ Resolved(TwitterDescriptionKeys)
             THEN "TwitterNoCardFound" ELSE "NotEnoughData")

\* Title and description both resolved, no card type: TwitterNoCardFound.
C3_Witness ==
    /\ Done /\ Soc = "Twitter"
    /\ "twitter:card" \notin DOMAIN metadata /\ "og:type" \notin DOMAIN metadata
    /\ Resolved(TwitterTitleKeys) /\ Resolved(TwitterDescriptionKeys)
    /\ result[1] = Err("TwitterNoCardFound")

\* C4: on Twitter, the size of a returned Card follows the twitter:card
\* meta-tag: "summary" gives Medium, "summary_large_image" gives Large, any
\* other value gives Large, no twitter:card key gives Medium.
C4_TwitterSizeByCardTag ==
    (Returned /\ Soc = "Twitter") =>
        /\ "twitter:card" \notin DOMAIN metadata => CardOut.size = "Medium"
        /\ "twitter:card" \in DOMAIN metadata =>
              /\ metadata["twitter:card"] = "summary" => CardOut.size = "Medium"
              /\ metadata["twitter:card"] = "summary_large_image"
                    => CardOut.size = "Large"
              /\ metadata["twitter:card"] \notin {"summary", "summary_large_image"}
                    => CardOut.size = "Large"

\* A Twitter card with an unrecognized twitter:card value, sized Large.
C4_Witness ==
    /\ Returned /\ Soc = "Twitter"
    /\ "twitter:card" \in DOMAIN metadata /\ metadata["twitter:card"] = "player"
    /\ CardOut.size = "Large"

\* C5 as stated: on Twitter, the size of a returned Card is
\* twitterSizeFromHint of the card-type hint, the first non-empty value of
\* twitter:card, og:type: "summary" gives Medium, any other hint Large.
C5_SizeFromHint ==
    (Returned /\ Soc = "Twitter") =>
        LET hint == IF "twitter:card" \in DOMAIN metadata /\ metadata["twitter:card"] # ""
                    THEN metadata["twitter:card"] ELSE metadata["og:type"]
        IN CardOut.size = (IF hint = "summary" THEN "Medium" ELSE "Large")

\* C5 amended: on Twitter, the size of a returned Card is twitterSizeFromHint
\* of the twitter:card meta-tag itself, not of the hint: Medium when the key
\* is missing or its value is "summary", Large for any other value (the
\* empty string too); og:type has no part in it.
C5_SizeFromCardTag ==
    (Returned /\ Soc = "Twitter") =>
        LET raw == IF "twitter:card" \in DOMAIN metadata
                   THEN Some(metadata["twitter:card"]) ELSE None
        IN CardOut.size = (IF raw \in {None, Some("summary")} THEN "Medium" ELSE "Large")

\* A Twitter card whose hint comes from og:type and is not "summary": Medium.
C5_Witness ==
    /\ Returned /\ Soc = "Twitter"
    /\ "twitter:card" \notin DOMAIN metadata
    /\ "og:type" \in DOMAIN metadata /\ metadata["og:type"] = "website"
    /\ CardOut.size = "Medium"

\* C6 as stated: on Facebook, with no image key in the metadata and a
\* non-empty images list the Card has the first image of the list and size
\* Medium; with any image key in the metadata the Card's image is not taken
\* from the list and the size stays Large.
C6_ListIgnoredWhenKeyPresent ==
    (Done /\ Soc = "Facebook") =>
        /\ ((\A i \in 1..3 : FacebookImageKeys[i] \notin DOMAIN metadata) /\ images # <<>>)
              => Returned /\ CardOut.image = Some(images[1]) /\ CardOut.size = "Medium"
        /\ (\E i \in 1..3 : FacebookImageKeys[i] \in DOMAIN metadata)
              => /\ Returned
                 /\ \A j \in DOMAIN images : CardOut.image # Some(images[j])
                 /\ CardOut.size = "Large"

\* C6 amended: on Facebook, when no image key holds a value that parses as a
\* URL once trimmed (none being in the metadata is one such case) and the
\* images list is not empty, the Card has the first image of the list and
\* size Medium; when some image key holds such a value, the list is ignored:
\* the image is built from the first such value in the order og:image,
\* twitter:image, twitter:image:src and the size is Large.
C6_ListIgnoredWhenUrlFound ==
    (Done /\ Soc = "Facebook") =>
        /\ ((\A i \in 1..3 : ~HoldsUrl(FacebookImageKeys[i])) /\ images # <<>>)
              => Returned /\ CardOut.image = Some(images[1]) /\ CardOut.size = "Medium"
        /\ \A i \in 1..3 :
              (HoldsUrl(FacebookImageKeys[i])
                 /\ \A j \in 1..(i - 1) : ~HoldsUrl(FacebookImageKeys[j]))
              => /\ Returned
                 /\ CardOut.image = Some(ImageNew(metadata[FacebookImageKeys[i]]))
                 /\ CardOut.size = "Large"

\* A Facebook card whose og:image is no URL and whose twitter:image is one,
\* built with two images found in the document.
C6_Witness ==
    /\ Returned /\ Soc = "Facebook"
    /\ Len(images) = 2 /\ images[1] # images[2]
    /\ "og:image" \in DOMAIN metadata /\ ~HoldsUrl("og:image")
    /\ HoldsUrl("twitter:image")
    /\ CardOut.image = Some(ImageNew(metadata["twitter:image"]))
    /\ CardOut.size = "Large"

\* C7: the image of a returned Card is either built from the content of one
\* of the social's image keys that parses as a URL once trimmed, or, on
\* Facebook only, an entry of the images list.
C7_ImageOrigin ==
    (Returned /\ CardOut.image # None) =>
        \/ \E i \in DOMAIN image_find(Soc) :
              /\ HoldsUrl(image_find(Soc)[i])
              /\ CardOut.image = Some(ImageNew(metadata[image_find(Soc)[i]]))
        \/ /\ Soc = "Facebook"
           /\ \E j \in DOMAIN images : CardOut.image = Some(images[j])

\* A card built from metadata in which one image key holds no URL and a
\* later one does.
C7_Witness ==
    /\ Returned /\ CardOut.image # None
    /\ \E i, j \in DOMAIN image_find(Soc) :
          /\ i < j
          /\ image_find(Soc)[i] \in DOMAIN metadata /\ ~HoldsUrl(image_find(Soc)[i])
          /\ HoldsUrl(image_find(Soc)[j])
          /\ CardOut.image = Some(ImageNew(metadata[image_find(Soc)[j]]))

\* C8: on Mastodon every returned Card has size Small.
C8_MastodonSmall == (Returned /\ Soc = "Mastodon") => CardOut.size = "Small"

\* A Mastodon card with a twitter:card tag, an image and images in the
\* document.
C8_Witness ==
    /\ Returned /\ Soc = "Mastodon"
    /\ "twitter:card" \in DOMAIN metadata
    /\ metadata["twitter:card"] = "summary_large_image"
    /\ CardOut.image # None /\ images # <<>>
    /\ CardOut.size = "Small"

\* C9: get_correct_tag returns the content of the first key of the list that
\* is in the metadata and passes (non-empty, or a URL once trimmed when
\* is_url), skipping the ones that do not pass, and None exactly when no key
\* of the list is in the metadata and passes.
C9_FirstAcceptable ==
    tag # None =>
        LET passes(i) ==
                /\ list[i] \in DOMAIN metadata
                /\ IF is_url THEN UrlParse(Trim(metadata[list[i]]))
                   ELSE metadata[list[i]] # ""
            good == {i \in DOMAIN list : passes(i)}
        IN IF good = {} THEN tag[1] = None
           ELSE \E i \in good :
                   /\ \A j \in good : i <= j
                   /\ tag[1] = Some(metadata[list[i]])

\* A URL selection that skips a first key holding no URL and returns the
\* content of a later one.
C9_Witness ==
    /\ tag # None /\ is_url
    /\ Len(list) >= 2
    /\ list[1] \in DOMAIN metadata /\ ~HoldsUrl(list[1])
    /\ \E i \in 2..Len(list) : HoldsUrl(list[i]) /\ tag[1] = Some(metadata[list[i]])

\* C10: on Facebook and on Mastodon Card::new returns a Card, whose social is
\* the one asked for; an error is returned on Twitter only.
C10_ErrorsOnlyOnTwitter ==
    Done =>
        /\ Soc \in {"Facebook", "Mastodon"} => Returned /\ CardOut.social = Soc
        /\ Failed => Soc = "Twitter" /\ result[1].err \in CardError

\* A Facebook or Mastodon card built from data with no title, no
\* description and no card type, which Twitter refuses.
C10_Witness ==
    /\ Returned /\ Soc \in {"Facebook", "Mastodon"}
    /\ metadata = EmptyMap /\ title = None
    /\ CardOut.social = Soc

====
